---- MODULE Spec2Model ----
(***************************************************************************)
(* Krumhansl-Schmuckler key finder (keyfinder.py, class Tonal_Fragment).    *)
(*                                                                         *)
(* Numbers.  Correlations are floats rounded to 3 decimals; they are held   *)
(* as integers in thousandths (0.850 is 850).  NaN is a separate value on   *)
(* which every ordered comparison is false and != is true.  Chroma energies *)
(* and the two key profiles are held in hundredths (6.35 is 635); Pearson   *)
(* correlation does not depend on the unit.  A threshold is held in tenths  *)
(* (0.9 is 9).                                                              *)
(***************************************************************************)
EXTENDS Integers, Sequences, FiniteSets, TLC

VARIABLES pc, exc, chromograph, chroma_vals, key_dict, key, bestcorr,
          altkey, altbestcorr, call, ret, stdout

vars == <<pc, exc, chromograph, chroma_vals, key_dict, key, bestcorr,
          altkey, altbestcorr, call, ret, stdout>>

fields == <<chromograph, chroma_vals, key_dict, key, bestcorr,
            altkey, altbestcorr>>

-----------------------------------------------------------------------------
(* Class constants *)

PITCHES == <<"C", "C#", "D", "D#", "E", "F", "F#", "G", "G#", "A", "A#", "B">>

MAJ_PROFILE == <<635, 223, 348, 233, 438, 409, 252, 519, 239, 366, 229, 288>>

MIN_PROFILE == <<633, 268, 352, 538, 260, 353, 254, 475, 398, 269, 334, 317>>

(* Python values that are not numbers or labels *)
None == <<>>

NoCorr == 3000

NaN == 2000

Unset == <<"unset">>

-----------------------------------------------------------------------------
(* Float comparisons as Python evaluates them *)

FGt(a, b) == a # NaN /\ b # NaN /\ a > b

FNe(a, b) == a = NaN \/ b = NaN \/ a # b

\* variant: at least b * t
FGtTimesOrEqual(a, b, t) == a # NaN /\ b # NaN /\ 10 * a >= t * b

\* a > b * t, with t in tenths
FGtTimes(a, b, t) == a # NaN /\ b # NaN /\ 10 * a > t * b

-----------------------------------------------------------------------------
(* The key labels, in the order the dictionary receives them *)

keys == [i \in 1..24 |->
           IF i <= 12 THEN <<PITCHES[i], "major">>
                      ELSE <<PITCHES[i - 12], "minor">>]

\* key_dict built from the two lists of correlations (each of length 12)
MakeKeyDict(maj_key_corrs, min_key_corrs) ==
    [i \in 1..24 |->
       IF i <= 12 THEN <<keys[i], maj_key_corrs[i]>>
                  ELSE <<keys[i], min_key_corrs[i - 12]>>]

\* position of a key in the dictionary's insertion order; 0 when absent
RECURSIVE DictPos(_, _, _)
DictPos(d, k, i) ==
    IF i > Len(d) THEN 0
    ELSE IF d[i][1] = k THEN i ELSE DictPos(d, k, i + 1)

DictHas(d, k) == DictPos(d, k, 1) # 0

DictGet(d, k) == d[DictPos(d, k, 1)][2]

\* variant: a later item that compares equal replaces the one kept
RECURSIVE MaxScanLast(_, _, _)
MaxScanLast(d, i, best) ==
    IF i > Len(d) THEN best
    ELSE MaxScanLast(d, i + 1,
                     IF FGt(d[i][2], d[best][2]) \/ d[i][2] = d[best][2]
                     THEN i ELSE best)

\* max(key_dict, key=key_dict.get): the first item is kept until a later
\* one compares strictly greater
RECURSIVE MaxScan(_, _, _)
MaxScan(d, i, best) ==
    IF i > Len(d) THEN best
    ELSE MaxScan(d, i + 1, IF FGt(d[i][2], d[best][2]) THEN i ELSE best)

PyMax(d) == d[MaxScan(d, 2, 1)][1]

\* variant: the loop without its break, so the last qualifying item stays
RECURSIVE FindAlternativeKeyNoBreak(_, _, _)
FindAlternativeKeyNoBreak(d, best, i) ==
    IF i > Len(d) THEN <<None, NoCorr>>
    ELSE LET rest == FindAlternativeKeyNoBreak(d, best, i + 1)
         IN  IF rest[1] # None THEN rest
             ELSE IF FGtTimes(d[i][2], best, 9) /\ FNe(d[i][2], best)
                  THEN <<d[i][1], d[i][2]>>
                  ELSE rest

\* variant: the loop without the test corr != bestcorr
RECURSIVE FindAlternativeKeyNoNe(_, _, _)
FindAlternativeKeyNoNe(d, best, i) ==
    IF i > Len(d) THEN <<None, NoCorr>>
    ELSE IF FGtTimes(d[i][2], best, 9)
         THEN <<d[i][1], d[i][2]>>
         ELSE FindAlternativeKeyNoNe(d, best, i + 1)

\* the loop of _find_alternative_key from item i on; <<altkey, altbestcorr>>
RECURSIVE FindAlternativeKey(_, _, _)
FindAlternativeKey(d, best, i) ==
    IF i > Len(d) THEN <<None, NoCorr>>
    ELSE IF FGtTimes(d[i][2], best, 9) /\ FNe(d[i][2], best)
         THEN <<d[i][1], d[i][2]>>
         ELSE FindAlternativeKey(d, best, i + 1)

\* PITCHES.index(root), 0-based
RECURSIVE PitchIndex(_, _)
PitchIndex(root, i) ==
    IF PITCHES[i + 1] = root THEN i ELSE PitchIndex(root, i + 1)

\* variant: the relative minor taken 3 semitones up
KeyWithContextUp(d, k, best, prefer_minor, threshold) ==
    IF prefer_minor /\ k[2] = "major"
    THEN LET root == k[1]
             idx == PitchIndex(root, 0)
             relative_minor == <<PITCHES[((idx + 3) % 12) + 1], "minor">>
         IN  IF DictHas(d, relative_minor)
                /\ FGtTimes(DictGet(d, relative_minor), best, threshold)
             THEN <<relative_minor, DictGet(d, relative_minor)>>
             ELSE <<k, best>>
    ELSE <<k, best>>

\* the value get_key_with_context returns on an object with these fields
KeyWithContext(d, k, best, prefer_minor, threshold) ==
    IF prefer_minor /\ k[2] = "major"
    THEN LET root == k[1]
             idx == PitchIndex(root, 0)
             relative_minor == <<PITCHES[((idx - 3) % 12) + 1], "minor">>
         IN  IF DictHas(d, relative_minor)
                /\ FGtTimes(DictGet(d, relative_minor), best, threshold)
             THEN <<relative_minor, DictGet(d, relative_minor)>>
             ELSE <<k, best>>
    ELSE <<k, best>>

-----------------------------------------------------------------------------
(* Exact arithmetic on naturals beyond the machine word: little-endian     *)
(* digit sequences in base 10000, without leading zeros.                    *)

RECURSIVE Big(_)
Big(n) == IF n = 0 THEN <<>> ELSE <<n % 10000>> \o Big(n \div 10000)

RECURSIVE BigAdd(_, _, _)
BigAdd(a, b, carry) ==
    IF a = <<>> /\ b = <<>> THEN (IF carry = 0 THEN <<>> ELSE <<carry>>)
    ELSE LET x == IF a = <<>> THEN 0 ELSE Head(a)
             y == IF b = <<>> THEN 0 ELSE Head(b)
             t == x + y + carry
         IN  <<t % 10000>>
             \o BigAdd(IF a = <<>> THEN a ELSE Tail(a),
                       IF b = <<>> THEN b ELSE Tail(b), t \div 10000)

\* a times one digit
RECURSIVE BigMulDigit(_, _, _)
BigMulDigit(a, m, carry) ==
    IF a = <<>> THEN (IF carry = 0 THEN <<>> ELSE <<carry>>)
    ELSE LET t == Head(a) * m + carry
         IN  <<t % 10000>> \o BigMulDigit(Tail(a), m, t \div 10000)

RECURSIVE BigMul(_, _)
BigMul(a, b) ==
    IF a = <<>> \/ b = <<>> THEN <<>>
    ELSE IF Head(b) = 0 THEN <<0>> \o BigMul(a, Tail(b))
    ELSE BigAdd(BigMulDigit(a, Head(b), 0),
                IF Tail(b) = <<>> THEN <<>> ELSE <<0>> \o BigMul(a, Tail(b)), 0)

RECURSIVE BigLeqFrom(_, _, _)
BigLeqFrom(a, b, i) ==
    IF i = 0 THEN TRUE
    ELSE IF a[i] # b[i] THEN a[i] < b[i] ELSE BigLeqFrom(a, b, i - 1)

BigLeq(a, b) ==
    IF Len(a) # Len(b) THEN Len(a) < Len(b) ELSE BigLeqFrom(a, b, Len(a))

-----------------------------------------------------------------------------
(* round(np.corrcoef(x, y)[1, 0], 3), in thousandths                        *)

RECURSIVE SumSeq(_, _)
SumSeq(s, i) == IF i > Len(s) THEN 0 ELSE s[i] + SumSeq(s, i + 1)

Dot(x, y) == SumSeq([i \in 1..Len(x) |-> x[i] * y[i]], 1)

\* n times the covariance sum: n*sum(xy) - sum(x)*sum(y)
CoMoment(x, y) == Len(x) * Dot(x, y) - SumSeq(x, 1) * SumSeq(y, 1)

Abs(n) == IF n < 0 THEN 0 - n ELSE n

\* the largest k in lo..hi with (2k-1)^2 * d <= m, given that lo has it
RECURSIVE RoundSearch(_, _, _, _)
RoundSearch(d, m, lo, hi) ==
    IF lo = hi THEN lo
    ELSE LET mid == (lo + hi + 1) \div 2
         IN  IF BigLeq(BigMul(Big((2 * mid - 1) * (2 * mid - 1)), d), m)
             THEN RoundSearch(d, m, mid, hi)
             ELSE RoundSearch(d, m, lo, mid - 1)

\* Pearson's r = c / sqrt(vx) / sqrt(vy), clipped to [-1, 1], rounded to 3
\* decimals; 0/0 is NaN when either variance is zero
Corrcoef3(x, y) ==
    LET c  == CoMoment(x, y)
        vx == CoMoment(x, x)
        vy == CoMoment(y, y)
    IN  IF vx = 0 \/ vy = 0 THEN NaN
        ELSE LET d == BigMul(Big(vx), Big(vy))
                 m == BigMul(Big(4000000), BigMul(Big(Abs(c)), Big(Abs(c))))
                 k == RoundSearch(d, m, 0, 1000)
             IN  IF c < 0 THEN 0 - k ELSE k

\* variant: the rotation taken downwards
KeyTestDown(vals, i) == [m \in 1..12 |-> vals[((i - 1 - (m - 1)) % 12) + 1]]

\* _compute_key_correlations: key_dict from the 12 chroma values
KeyTest(vals, i) == [m \in 1..12 |-> vals[((i - 1 + m - 1) % 12) + 1]]

ComputeKeyCorrelations(vals) ==
    MakeKeyDict([i \in 1..12 |-> Corrcoef3(MAJ_PROFILE, KeyTest(vals, i))],
                [i \in 1..12 |-> Corrcoef3(MIN_PROFILE, KeyTest(vals, i))])

-----------------------------------------------------------------------------
(* Bounds *)

\* calls of print_key whose output is kept
MaxPrints == 1

\* arguments tried for get_key_with_context (the default 0.9, and 2.0)
Thresholds == {9, 20}

NoCall == <<"no call">>

\* frames (columns) of the chroma matrix
MaxFrames == 1

\* rows the chroma matrix may have beyond or short of 12
ExtraRows == 1

-----------------------------------------------------------------------------
(* Chroma matrices handed to the analysis *)

\* the major template with its tonic on pitch class r (0-based):
\* frame[(r + m) mod 12] = MAJ_PROFILE[m]
GoldenFrame(r) == [j \in 1..12 |-> MAJ_PROFILE[((j - 1 - r) % 12) + 1]]

SilentFrame == [j \in 1..12 |-> 0]

FlatFrame == [j \in 1..12 |-> 100]

\* E, G (strong), A and B sounding
ChordFrame == <<0, 0, 0, 0, 100, 0, 0, 300, 0, 100, 0, 100>>

\* a tritone: the same frame after a rotation by 6
TritoneFrame == <<100, 0, 0, 0, 0, 0, 100, 0, 0, 0, 0, 0>>

Frames == {GoldenFrame(r) : r \in 0..11}
          \cup {SilentFrame, FlatFrame, ChordFrame, TritoneFrame}

FrameSeqs == UNION {[1..t -> Frames] : t \in 0..MaxFrames}

\* rows x frames; a row past the twelfth repeats the pitch class an octave up
Matrix(fs, nrows) ==
    [i \in 1..nrows |-> [t \in 1..Len(fs) |-> fs[t][((i - 1) % 12) + 1]]]

ChromaInputs == {Matrix(fs, n) : fs \in FrameSeqs,
                                 n \in (12 - ExtraRows)..(12 + ExtraRows)}

-----------------------------------------------------------------------------
(* Correlation tables handed to the selection directly: every candidate    *)
(* carries a background correlation except two, which carry their own.      *)

BaseCorrs == {-600, 780}

MarkCorrs == {-500, 0, 765, 800, 850}

Table(base, a, va, b, vb) ==
    MakeKeyDict([i \in 1..12 |-> IF i = a THEN va ELSE IF i = b THEN vb ELSE base],
                [i \in 1..12 |-> IF i + 12 = a THEN va
                                 ELSE IF i + 12 = b THEN vb ELSE base])

NaNTable == MakeKeyDict([i \in 1..12 |-> NaN], [i \in 1..12 |-> NaN])

IsTable(d) ==
    \/ \E base \in BaseCorrs, a \in 1..23, va \in MarkCorrs, vb \in MarkCorrs :
          \E b \in (a + 1)..24 : d = Table(base, a, va, b, vb)
    \/ d = NaNTable

-----------------------------------------------------------------------------
(* Operations *)

\* __init__ from "Determine primary and alternative keys" on:
\* <<key, bestcorr, altkey, altbestcorr>> for a key_dict
Estimate(d) ==
    LET k == PyMax(d)
        best == DictGet(d, k)
        alt == FindAlternativeKey(d, best, 1)
    IN  <<k, best, alt[1], alt[2]>>

\* chroma_vals: np.sum of each of the rows 0..11
ChromaVals(m) == [i \in 1..12 |-> SumSeq(m[i], 1)]

\* __init__, with the chroma matrix librosa returned for the segment
Construct ==
    /\ pc = "new"
    /\ \/ /\ Len(chromograph) < 12
          /\ pc' = "raised"
          /\ exc' = "IndexError"
          /\ UNCHANGED <<chroma_vals, key_dict, key, bestcorr, altkey, altbestcorr>>
       \/ /\ Len(chromograph) >= 12
          /\ chroma_vals' = ChromaVals(chromograph)
          /\ key_dict' = ComputeKeyCorrelations(chroma_vals')
          /\ LET e == Estimate(key_dict')
             IN  /\ key' = e[1]
                 /\ bestcorr' = e[2]
                 /\ altkey' = e[3]
                 /\ altbestcorr' = e[4]
          /\ pc' = "ready"
          /\ exc' = exc
    /\ UNCHANGED <<chromograph, call, ret, stdout>>

\* the same selection over a correlation table that is already there
SelectKeys ==
    /\ pc = "scored"
    /\ LET e == Estimate(key_dict)
       IN  /\ key' = e[1]
           /\ bestcorr' = e[2]
           /\ altkey' = e[3]
           /\ altbestcorr' = e[4]
    /\ pc' = "ready"
    /\ UNCHANGED <<exc, chromograph, chroma_vals, key_dict, call, ret, stdout>>

\* variant: the preferred key is stored as the primary
GetKeyWithContextStores(prefer_minor, threshold) ==
    /\ pc = "ready"
    /\ ret' = KeyWithContext(key_dict, key, bestcorr, prefer_minor, threshold)
    /\ call' = <<prefer_minor, threshold>>
    /\ key' = ret'[1]
    /\ bestcorr' = ret'[2]
    /\ UNCHANGED <<pc, exc, stdout, chromograph, chroma_vals, key_dict,
                   altkey, altbestcorr>>

GetKeyWithContext(prefer_minor, threshold) ==
    /\ pc = "ready"
    /\ ret' = KeyWithContext(key_dict, key, bestcorr, prefer_minor, threshold)
    /\ call' = <<prefer_minor, threshold>>
    /\ UNCHANGED <<pc, exc, stdout>>
    /\ UNCHANGED fields

\* the lines print_key writes: the detected key, then the alternative
PrintKeyLines(d, k, best, ak, ac) ==
    LET r == KeyWithContext(d, k, best, TRUE, 9)
    IN  <<<<"Detected key", r[1], r[2]>>>>
        \o (IF ak # None THEN <<<<"also possible", ak, ac>>>> ELSE <<>>)

PrintKey ==
    /\ pc = "ready"
    /\ Len(stdout) < MaxPrints
    /\ stdout' = Append(stdout,
                        PrintKeyLines(key_dict, key, bestcorr, altkey, altbestcorr))
    /\ UNCHANGED <<pc, exc, call, ret>>
    /\ UNCHANGED fields

Calls ==
    \/ \E prefer_minor \in BOOLEAN, threshold \in Thresholds :
          GetKeyWithContext(prefer_minor, threshold)
    \/ PrintKey

-----------------------------------------------------------------------------
(* Specification over given correlation tables *)

InitTable ==
    /\ pc = "scored"
    /\ exc = "none"
    /\ chromograph = Unset
    /\ chroma_vals = Unset
    /\ IsTable(key_dict)
    /\ key = Unset
    /\ bestcorr = NoCorr
    /\ altkey = Unset
    /\ altbestcorr = NoCorr
    /\ call = NoCall
    /\ ret = Unset
    /\ stdout = <<>>

NextTable == SelectKeys \/ Calls

SpecTable == InitTable /\ [][NextTable]_vars

-----------------------------------------------------------------------------
(* Specification of the whole analysis, from the chroma matrix on *)

Init ==
    /\ pc = "new"
    /\ exc = "none"
    /\ chromograph \in ChromaInputs
    /\ chroma_vals = Unset
    /\ key_dict = Unset
    /\ key = Unset
    /\ bestcorr = NoCorr
    /\ altkey = Unset
    /\ altbestcorr = NoCorr
    /\ call = NoCall
    /\ ret = Unset
    /\ stdout = <<>>

Next == Construct \/ Calls

Spec == Init /\ [][Next]_vars

-----------------------------------------------------------------------------
(* Properties *)

\* the candidate at place p of the enumeration: major roots C..B, then
\* minor roots C..B
Candidate(p) ==
    <<PITCHES[((p - 1) % 12) + 1], IF p <= 12 THEN "major" ELSE "minor">>

\* the correlation the table holds for a label
CorrOf(label) ==
    LET i == CHOOSE j \in 1..24 : key_dict[j][1] = label IN key_dict[i][2]

CorrAt(p) ==
    IF key_dict[p][1] = Candidate(p) THEN key_dict[p][2]
                                     ELSE CorrOf(Candidate(p))

HasTable == pc = "ready"

NoNaN == \A p \in 1..24 : CorrAt(p) # NaN

\* relative minors by name
RelativeMinorName ==
    [n \in {PITCHES[i] : i \in 1..12} |->
       CASE n = "C" -> "A"   [] n = "C#" -> "A#" [] n = "D" -> "B"
         [] n = "D#" -> "C"  [] n = "E" -> "C#"  [] n = "F" -> "D"
         [] n = "F#" -> "D#" [] n = "G" -> "E"   [] n = "G#" -> "F"
         [] n = "A" -> "F#"  [] n = "A#" -> "G"  [] n = "B" -> "G#"]

\* C1: over a table without NaN, the stored primary is a candidate with the
\* maximum correlation, and no candidate earlier in the enumeration (majors
\* C..B, then minors C..B) has that correlation.
PrimaryIsFirstMaximum ==
    (HasTable /\ NoNaN) =>
        \E p \in 1..24 :
            /\ key = Candidate(p)
            /\ bestcorr = CorrAt(p)
            /\ \A i \in 1..24 : CorrAt(i) <= bestcorr
            /\ \A i \in 1..(p - 1) : CorrAt(i) < bestcorr

\* a major and a minor candidate tie at the maximum, as do two roots of one
\* mode, and the primary is the major one
PrimaryTieReached ==
    /\ HasTable /\ NoNaN
    /\ \E i \in 1..12, j \in 13..24 :
          /\ CorrAt(i) = bestcorr /\ CorrAt(j) = bestcorr
          /\ key = Candidate(i)
          /\ \A q \in 1..24 : q \notin {i, j} => CorrAt(q) < bestcorr

\* C2: the stored alternate is the first candidate of the enumeration whose
\* correlation is strictly greater than 0.9 * bestcorr and differs from
\* bestcorr; there is none when no candidate qualifies.
Qualifies(p) ==
    /\ CorrAt(p) # NaN /\ bestcorr # NaN
    /\ 10 * CorrAt(p) > 9 * bestcorr
    /\ CorrAt(p) # bestcorr

AlternateIsFirstQualifying ==
    HasTable =>
        IF \E p \in 1..24 : Qualifies(p)
        THEN \E p \in 1..24 :
                /\ Qualifies(p)
                /\ \A i \in 1..(p - 1) : ~Qualifies(i)
                /\ altkey = Candidate(p)
                /\ altbestcorr = CorrAt(p)
        ELSE altkey = None /\ altbestcorr = NoCorr

\* the alternate precedes the primary in the enumeration and a candidate
\* other than the primary scores higher than the alternate
AlternateNotSecondBestReached ==
    /\ HasTable /\ NoNaN
    /\ \E a \in 1..24, p \in 1..24, q \in 1..24 :
          /\ a < p /\ altkey = Candidate(a) /\ key = Candidate(p)
          /\ q # p /\ Qualifies(q) /\ CorrAt(q) > altbestcorr

\* C3: get_key_with_context(prefer_minor, threshold) returns the relative
\* minor with its own correlation exactly when prefer_minor holds, the
\* primary is major and the relative minor's correlation is strictly greater
\* than bestcorr * threshold; otherwise the primary and bestcorr.
RelativeMinor == <<RelativeMinorName[key[1]], "minor">>

PrefersMinor ==
    /\ call[1]
    /\ key[2] = "major"
    /\ CorrOf(RelativeMinor) # NaN /\ bestcorr # NaN
    /\ 10 * CorrOf(RelativeMinor) > call[2] * bestcorr

RelativeMinorPreference ==
    (HasTable /\ call # NoCall) =>
        ret = IF PrefersMinor THEN <<RelativeMinor, CorrOf(RelativeMinor)>>
                              ELSE <<key, bestcorr>>

\* "C major" 0.850 with "A minor" 0.800 has returned ("A minor", 0.800)
RelativeMinorReturned ==
    /\ HasTable
    /\ key = <<"C", "major">> /\ bestcorr = 850
    /\ CorrOf(<<"A", "minor">>) = 800
    /\ call = <<TRUE, 9>>
    /\ ret = <<<<"A", "minor">>, 800>>

\* C4: when every candidate other than the primary has a correlation of at
\* most 0.9 * bestcorr, altkey and altbestcorr stay None.
NoAlternateWhenNoneClose ==
    (/\ HasTable /\ NoNaN
     /\ \A p \in 1..24 : Candidate(p) # key => 10 * CorrAt(p) <= 9 * bestcorr)
    => (altkey = None /\ altbestcorr = NoCorr)

\* a positive primary with a candidate exactly at 0.9 * bestcorr
NoAlternateAtBoundaryReached ==
    /\ HasTable /\ NoNaN
    /\ bestcorr > 0
    /\ \A p \in 1..24 : Candidate(p) # key => 10 * CorrAt(p) <= 9 * bestcorr
    /\ \E p \in 1..24 : 10 * CorrAt(p) = 9 * bestcorr
    /\ altkey = None

\* C5: a chroma vector with chroma[(r + m) mod 12] = MAJ_PROFILE[m] for all
\* m gives the primary "<pitch r> major" with correlation 1.0, and no
\* candidate earlier in the enumeration has that correlation.
IsGolden(r) ==
    \A m \in 0..11 : chroma_vals[((r + m) % 12) + 1] = MAJ_PROFILE[m + 1]

GoldenTemplateMatch ==
    \A r \in 0..11 :
        (HasTable /\ IsGolden(r)) =>
            /\ key = <<PITCHES[r + 1], "major">>
            /\ bestcorr = 1000
            /\ \A i \in 1..r : CorrAt(i) < 1000

\* the template on G has been analysed
GoldenOnGReached ==
    HasTable /\ IsGolden(7) /\ key = <<"G", "major">> /\ bestcorr = 1000

\* C6: a chroma vector of zero variance does not yield a key label as the
\* primary.
ZeroVariance == \A i \in 1..12 : chroma_vals[i] = chroma_vals[1]

DegenerateInputYieldsNoKeyLabel ==
    (HasTable /\ ZeroVariance) => key \notin {Candidate(p) : p \in 1..24}

GetKeyWithContextReadOnly ==
    [][(pc = "ready" /\ stdout' = stdout) =>
          /\ fields' = fields
          /\ (call' = call => ret' = ret)]_vars

\* a call has returned the relative minor in place of the primary
MinorPreferredReached ==
    /\ HasTable
    /\ call # NoCall
    /\ ret[1] # key
    /\ key[2] = "major"

\* C9: altkey is None exactly when altbestcorr is; an alternate is another
\* candidate than the primary, with a correlation strictly below bestcorr
\* and strictly above 0.9 * bestcorr, and then bestcorr is strictly positive
\* (and not NaN).
AlternateInvariant ==
    HasTable =>
        /\ (altkey = None) <=> (altbestcorr = NoCorr)
        /\ altkey # None =>
              /\ altkey # key
              /\ bestcorr # NaN /\ altbestcorr # NaN
              /\ altbestcorr < bestcorr
              /\ 10 * altbestcorr > 9 * bestcorr
              /\ bestcorr > 0

\* an alternate is stored while another candidate ties with the primary
AlternateBesideTieReached ==
    /\ HasTable /\ NoNaN
    /\ altkey # None
    /\ \E p \in 1..24 : Candidate(p) # key /\ CorrAt(p) = bestcorr

\* C10: print_key never announces as "also possible" the key it announces
\* as detected.
AnnouncedAlternateDiffers ==
    \A n \in 1..Len(stdout) :
        Len(stdout[n]) = 2 => stdout[n][2][2] # stdout[n][1][2]

====
